---------------------------- MODULE Spec2Model ----------------------------
(***************************************************************************)
(* A model of server.py: the /api/compare handler, the three upstream      *)
(* fetches (spot price, paginated dual-investment listing, option          *)
(* tickers), the per-product matching loop of compare() and its            *)
(* statistics.                                                             *)
(*                                                                         *)
(* Python floats are modelled as exact rationals <<n, d>> (d > 0, lowest   *)
(* terms); round(x, k) is the nearest multiple of 10^-k, ties to even.     *)
(* Millisecond timestamps are kept as [day, ms] pairs (whole days since    *)
(* 1970-01-01 UTC and the millisecond within the day), so that they fit    *)
(* the checker's integers.                                                 *)
(***************************************************************************)
EXTENDS Integers, Sequences, FiniteSets, TLC

\* ------------------------------------------------------------------ bounds

\* Most products the upstream listing returns in one request (all pages).
MaxProducts == 2
\* Most items the upstream puts on one page of the listing.
MaxItems == 2
\* Most pages per direction the upstream keeps announcing before it stops.
MaxPage == 2
\* Most ticker records in one snapshot of the option ticker feed.
MaxTickers == 2

\* ------------------------------------------------------- float arithmetic

Abs(x) == IF x < 0 THEN -x ELSE x

RECURSIVE Gcd(_, _)
Gcd(a, b) == IF b = 0 THEN a ELSE Gcd(b, a % b)

\* The rational n/d in lowest terms with a positive denominator.
Rat(n, d) ==
    LET s == IF d < 0 THEN -1 ELSE 1
        g == Gcd(Abs(n), Abs(d))
    IN  <<(s * n) \div g, (s * d) \div g>>

Zero == <<0, 1>>
\* Over the least common denominator, to keep the products small.
RAdd(a, b) ==
    LET g == Gcd(a[2], b[2])
    IN  Rat(a[1] * (b[2] \div g) + b[1] * (a[2] \div g), (a[2] \div g) * b[2])
RSub(a, b) == RAdd(a, <<-b[1], b[2]>>)
\* Cross-cancel before multiplying, to keep the products small.
RMul(a, b) ==
    LET x == Rat(a[1], b[2])
        y == Rat(b[1], a[2])
    IN  Rat(x[1] * y[1], x[2] * y[2])
\* Python raises ZeroDivisionError on b = 0; callers guard with RIsZero.
RDiv(a, b) == RMul(a, Rat(b[2], b[1]))
RIsZero(a) == a[1] = 0
RLe(a, b) == RSub(a, b)[1] <= 0
RLt(a, b) == RSub(a, b)[1] < 0
RPos(a) == a[1] > 0

RECURSIVE Pow10(_)
Pow10(k) == IF k = 0 THEN 1 ELSE 10 * Pow10(k - 1)

\* <<(n * r) \div d, (n * r) % d>> for 0 <= r < d, by n additions modulo d
\* (r * 10 itself may not fit the checker's integers).
RECURSIVE TimesMod(_, _, _, _, _)
TimesMod(n, r, d, q, acc) ==
    IF n = 0 THEN <<q, acc>>
    ELSE IF acc >= d - r
        THEN TimesMod(n - 1, r, d, q + 1, acc - (d - r))
        ELSE TimesMod(n - 1, r, d, q, acc + r)

\* Long division: <<floor(x * 10^k), remainder numerator>> over x's denominator.
RECURSIVE Shift(_, _, _, _)
Shift(q, r, d, k) ==
    IF k = 0 THEN <<q, r>>
    ELSE LET t == TimesMod(10, r, d, 0, 0)
         IN  Shift(q * 10 + t[1], t[2], d, k - 1)

\* round(x, k) as an integer count of 10^-k units (ties to even).
RoundUnits(x, k) ==
    LET s == Shift(x[1] \div x[2], x[1] % x[2], x[2], k)
        q == s[1]
        r == s[2]
    IN  IF r > x[2] - r THEN q + 1
        ELSE IF r < x[2] - r THEN q
        ELSE IF q % 2 = 0 THEN q ELSE q + 1

\* round(x, k) as a value.
Round(x, k) == Rat(RoundUnits(x, k), Pow10(k))

\* ----------------------------------------------------------------- helpers

\* Python's str.upper() on the letters the requests use.
UpperChar(c) ==
    CASE c = "e" -> "E"
      [] c = "t" -> "T"
      [] c = "h" -> "H"
      [] c = "b" -> "B"
      [] c = "c" -> "C"
      [] c = "d" -> "D"
      [] c = "o" -> "O"
      [] c = "g" -> "G"
      [] OTHER   -> c

Upper(s) == [i \in 1..Len(s) |-> UpperChar(s[i])]

ETH == <<"E", "T", "H">>
BTC == <<"B", "T", "C">>
SUPPORTED_COINS == {ETH, BTC}

\* A decimal given in hundredths, as a float.
Hundredths(c) == Rat(c, 100)

\* The digits of c hundredths after the decimal point, as str(float) prints
\* them: trailing zeros dropped, at least one digit kept.
FracDigits(c) ==
    LET h == c % 100
    IN  IF h % 10 = 0 THEN <<h \div 10>> ELSE <<h \div 10, h % 10>>

\* _format_strike: "3500" for a whole number, else the float's own text.
\* The text is <<integer part, digits after the point>>; no point when the
\* second is empty.
_format_strike(price) ==
    IF price[2] = 1
        THEN <<price[1], <<>>>>
        ELSE LET c == RoundUnits(price, 2)
             IN  <<c \div 100, FracDigits(c)>>

\* The civil date [y, m, d] of a day number (days since 1970-01-01, UTC).
CivilFromDays(z0) ==
    LET z   == z0 + 719468
        era == z \div 146097
        doe == z - era * 146097
        yoe == (doe - doe \div 1460 + doe \div 36524 - doe \div 146096) \div 365
        doy == doe - (365 * yoe + yoe \div 4 - yoe \div 100)
        mp  == (5 * doy + 2) \div 153
        d   == doy - (153 * mp + 2) \div 5 + 1
        m   == IF mp < 10 THEN mp + 3 ELSE mp - 9
        y   == yoe + era * 400 + (IF m <= 2 THEN 1 ELSE 0)
    IN  [y |-> y, m |-> m, d |-> d]

\* _expiry_yymmdd: the UTC date as the six digits YYMMDD, here yy*10000+mm*100+dd.
_expiry_yymmdd(ts) ==
    LET c == CivilFromDays(ts.day)
    IN  (c.y % 100) * 10000 + c.m * 100 + c.d

\* _expiry_date: the UTC date YYYY-MM-DD.
_expiry_date(ts) == CivilFromDays(ts.day)

MsPerDay == 86400000

\* _days_until at the instant `now`: days to ts, at least 0.01, 2 decimals.
_days_until(ts, now) ==
    LET delta == RAdd(<<ts.day - now.day, 1>>, Rat(ts.ms - now.ms, MsPerDay))
        low   == Rat(1, 100)
    IN  Round(IF RLt(delta, low) THEN low ELSE delta, 2)

\* int(x) for x >= 0 and math.ceil(x).
Trunc(x) == x[1] \div x[2]
Ceil(x) == -((-x[1]) \div x[2])

\* _days_label: hours under one day, else whole days rounded up.
_days_label(days) ==
    IF RLt(days, <<1, 1>>)
        THEN [n |-> Trunc(RMul(days, <<24, 1>>)), unit |-> "hours"]
        ELSE [n |-> Ceil(days), unit |-> "days"]

\* ------------------------------------------------------- upstream's data

USDT == <<"U", "S", "D", "T">>

\* 2024-06-28T08:00:00Z and 2024-07-05T08:00:00Z, as settleDate values.
Settle1 == [day |-> 19902, ms |-> 28800000]
Settle2 == [day |-> 19909, ms |-> 28800000]

\* The instants the clock is read at: 7 days before Settle1 (when the
\* request arrives), and 800 s before Settle1 (less than 0.01 day).
Arrival == [day |-> 19895, ms |-> 28800000]
Nows == {Arrival, [day |-> 19902, ms |-> 28000000]}

NotBefore(t, u) == t.day > u.day \/ (t.day = u.day /\ t.ms >= u.ms)

\* Items of the dual-investment listing, as the upstream sends them: the
\* keys present, strikePrice, settleDate and apr.
ItemKeys == {"strikePrice", "settleDate", "apr"}
Items ==
    { [keys |-> ItemKeys, strikePrice |-> Hundredths(290000),
       settleDate |-> Settle1, apr |-> Rat(1, 10)],
      [keys |-> ItemKeys, strikePrice |-> Hundredths(345050),
       settleDate |-> Settle2, apr |-> Rat(1, 20)],
      [keys |-> {"strikePrice", "settleDate"}, strikePrice |-> Hundredths(290000),
       settleDate |-> Settle1, apr |-> Zero] }

\* Spot prices the price endpoint may report.
Spots == {<<3000, 1>>}

\* A symbol f"{coin}-{yymmdd}-{strike}-{cp}" is kept as its four parts.
Sym(c, d, k, cp) == <<c, d, k, cp>>

TickerKeys == {"symbol", "bidPrice", "bidQty"}
Ticker(sym, keys, bid, qty) ==
    [keys |-> keys, symbol |-> sym, bidPrice |-> bid, bidQty |-> qty]

\* Records of the option ticker feed: quotes with a bid above the fee, below
\* the fee, zero, negative and absent; one of another coin; one with no keys.
TickerRecords ==
    { Ticker(Sym(ETH, 240628, <<2900, <<>>>>, "C"), TickerKeys, <<15, 1>>, <<2, 1>>),
      Ticker(Sym(ETH, 240628, <<2900, <<>>>>, "P"), TickerKeys, <<15, 1>>, <<1, 2>>),
      Ticker(Sym(ETH, 240628, <<2900, <<>>>>, "P"), TickerKeys, <<1, 2>>, <<3, 1>>),
      Ticker(Sym(ETH, 240628, <<2900, <<>>>>, "C"), TickerKeys, Zero, Zero),
      Ticker(Sym(ETH, 240628, <<2900, <<>>>>, "P"), {"symbol"}, Zero, Zero),
      Ticker(Sym(ETH, 240705, <<3450, <<5>>>>, "C"), TickerKeys, <<-1, 1>>, <<1, 1>>),
      Ticker(Sym(BTC, 240628, <<2900, <<>>>>, "P"), TickerKeys, <<15, 1>>, <<1, 1>>),
      Ticker(Sym(<<>>, 0, <<0, <<>>>>, ""), {}, Zero, Zero) }

SeqsUpTo(S, n) == UNION {[1..k -> S] : k \in 0..n}

\* The coin parameter of a request: absent, or some text.
NoParam == <<"-">>
Requests ==
    { NoParam, <<"b", "t", "c">>, <<"d", "o", "g", "e">>, <<>> }

\* ----------------------------------------------------- fetch_dual_products

PageSize == 100

OptionTypes == <<"CALL", "PUT">>
InvestCoin(opt_type, coin) == IF opt_type = "CALL" THEN coin ELSE USDT
ExercisedCoin(opt_type, coin) == IF opt_type = "CALL" THEN USDT ELSE coin

\* A page of the listing as JSON: list and total at the top level or under
\* "data"; an absent key reads as the empty list or 0.
Page(shape, items, total) ==
    IF shape = "flat"
        THEN [list |-> items, total |-> total, dlist |-> <<>>, dtotal |-> 0]
        ELSE [list |-> <<>>, total |-> 0, dlist |-> items, dtotal |-> total]

\* data.get("list") or data.get("data", {}).get("list", [])
ItemsOf(data) == IF data.list # <<>> THEN data.list ELSE data.dlist
\* int(data.get("total", 0) or data.get("data", {}).get("total", 0))
TotalOf(data) == IF data.total # 0 THEN data.total ELSE data.dtotal

\* The item with the three fields fetch_dual_products adds.
Tagged(item, opt_type, coin) ==
    [keys |-> item.keys, strikePrice |-> item.strikePrice,
     settleDate |-> item.settleDate, apr |-> item.apr,
     _optionType |-> opt_type, _investCoin |-> InvestCoin(opt_type, coin),
     _exercisedCoin |-> ExercisedCoin(opt_type, coin)]

\* products.extend(items)
Extend(prods, items, opt_type, coin) ==
    prods \o [i \in 1..Len(items) |-> Tagged(items[i], opt_type, coin)]

\* The exits with > for >=: one more page is asked when the total is reached.
LastPageStrict(items, pg, total) == items = <<>> \/ pg * PageSize > total

\* The loop's exits: `if not items: break` and `if page * 100 >= total: break`.
LastPage(items, pg, total) == items = <<>> \/ pg * PageSize >= total

\* page += 1
NextPageIndex(pg) == pg + 1

\* ----------------------------------------------------- fetch_option_tickers

\* sym.startswith(f"{coin}-"), with sym = t.get("symbol", "")
HasPrefix(t, coin) == "symbol" \in t.keys /\ t.symbol[1] = coin

\* The dict keyed by symbol: a later record of the feed replaces an earlier.
RECURSIVE BuildTickers(_, _)
BuildTickers(feed, coin) ==
    IF feed = <<>> THEN <<>>
    ELSE LET n    == Len(feed)
             t    == feed[n]
             rest == BuildTickers(SubSeq(feed, 1, n - 1), coin)
         IN  IF HasPrefix(t, coin)
                 THEN [s \in DOMAIN rest \cup {t.symbol} |->
                          IF s = t.symbol THEN t ELSE rest[s]]
                 ELSE rest

\* ------------------------------------------------------------------ compare

InvestAmount == 100000
FEE_RATE == Rat(24, 100000)

\* f"{coin}-{yymmdd}-{strike_str}-{cp}"
OptionSymbol(coin, p) ==
    Sym(coin, _expiry_yymmdd(p.settleDate), _format_strike(p.strikePrice),
        IF p._optionType = "CALL" THEN "C" ELSE "P")

\* tickers.get(option_symbol): the ticker, or None (found is FALSE).
Lookup(tk, sym) ==
    IF sym \in DOMAIN tk THEN [found |-> TRUE, t |-> tk[sym]] ELSE [found |-> FALSE]

\* `if ticker:` a dict is true when it is there and has a key.
Truthy(ticker) == ticker.found /\ ticker.t.keys # {}

\* float(ticker.get("bidPrice", 0) or 0), and 0.0 without a ticker.
BidOf(ticker) ==
    IF Truthy(ticker) /\ "bidPrice" \in ticker.t.keys THEN ticker.t.bidPrice ELSE Zero
BidQtyOf(ticker) ==
    IF Truthy(ticker) /\ "bidQty" \in ticker.t.keys THEN ticker.t.bidQty ELSE Zero

\* The gate with < for <=: a zero bid passes.
NoLiquidityStrict(bid) == RLt(bid, Zero)

\* `if bid <= 0:` the product goes to unmatched.
NoLiquidity(bid) == RLe(bid, Zero)

\* The reason taken from the bidPrice key instead of the ticker.
ReasonByBidKey(ticker) ==
    IF Truthy(ticker) /\ "bidPrice" \in ticker.t.keys THEN "no bid" ELSE "no contract"

\* "no bid" if ticker else "no contract"
Reason(ticker) == IF Truthy(ticker) THEN "no bid" ELSE "no contract"

TypeLabel(opt_type) == <<opt_type, IF opt_type = "CALL" THEN "sell-high" ELSE "buy-low">>

UnmatchedEntry(coin, p, days, ticker) ==
    [coin |-> coin, type |-> p._optionType, typeLabel |-> TypeLabel(p._optionType),
     investCoin |-> p._investCoin, strike |-> p.strikePrice,
     expiry |-> _expiry_date(p.settleDate), days |-> days,
     daysLabel |-> _days_label(days), dualAPR |-> p.apr,
     optionSymbol |-> OptionSymbol(coin, p), reason |-> Reason(ticker)]

\* fee = spot * 0.00024
Fee(spot) == RMul(spot, FEE_RATE)
\* The fee added instead of taken off.
NetBidPlusFee(bid, fee) == RAdd(bid, fee)

\* net_bid = bid - fee
NetBid(bid, fee) == RSub(bid, fee)

\* (price / strike) * (365 / days) for PUT, (price / spot) * (365 / days) for CALL
OptionApr(opt_type, price, spot, strike, days) ==
    RMul(RDiv(price, IF opt_type = "PUT" THEN strike ELSE spot),
         RDiv(<<365, 1>>, days))

\* (diff_apr / option_apr_net * 100) if option_apr_net > 0 else 0
SpreadPct(diff_apr, option_apr_net) ==
    IF RPos(option_apr_net)
        THEN RMul(RDiv(diff_apr, option_apr_net), <<100, 1>>)
        ELSE Zero

\* The unrounded values of one matched product.
Metrics(opt_type, spot, strike, days, dual_apr, bid, bid_qty) ==
    LET fee    == Fee(spot)
        gross  == OptionApr(opt_type, bid, spot, strike, days)
        net    == OptionApr(opt_type, NetBid(bid, fee), spot, strike, days)
        diff   == RSub(net, dual_apr)
        period == RDiv(days, <<365, 1>>)
        \* invest_amount * apr * period; exact, so taken in the order that
        \* keeps the numbers small
        dualP  == RMul(<<InvestAmount, 1>>, RMul(dual_apr, period))
        optP   == RMul(<<InvestAmount, 1>>, RMul(net, period))
    IN  [option_apr_gross |-> gross, option_apr_net |-> net,
         fee_apr |-> RSub(gross, net), diff_apr |-> diff,
         spread_pct |-> SpreadPct(diff, net),
         dual_profit |-> dualP, option_profit |-> optP,
         extra_profit |-> RSub(optP, dualP),
         bid_notional |-> RMul(bid_qty, spot)]

\* The dict appended to results.
ComparisonRow(coin, p, spot, days, bid, bid_qty) ==
    LET m == Metrics(p._optionType, spot, p.strikePrice, days, p.apr, bid, bid_qty)
    IN  [coin |-> coin, type |-> p._optionType, typeLabel |-> TypeLabel(p._optionType),
         investCoin |-> p._investCoin, strike |-> p.strikePrice,
         expiry |-> _expiry_date(p.settleDate), days |-> days,
         daysLabel |-> _days_label(days), spotPrice |-> spot,
         dualAPR |-> Round(p.apr, 6), optionBid |-> Round(bid, 4),
         bidQty |-> Round(bid_qty, 4), bidNotional |-> Round(m.bid_notional, 2),
         optionAPR |-> Round(m.option_apr_gross, 6),
         optionAPRNet |-> Round(m.option_apr_net, 6),
         feeAPR |-> Round(m.fee_apr, 6), diffAPR |-> Round(m.diff_apr, 6),
         spreadPct |-> Round(m.spread_pct, 2),
         dualProfit |-> Round(m.dual_profit, 2),
         optionProfit |-> Round(m.option_profit, 2),
         extraProfit |-> Round(m.extra_profit, 2),
         optionSymbol |-> OptionSymbol(coin, p)]

\* What the loop body raises on: a missing key (KeyError), or a zero divisor.
Raises(p, spot, bid) ==
    \/ ~(ItemKeys \subseteq p.keys)
    \/ /\ ~NoLiquidity(bid)
       /\ RIsZero(IF p._optionType = "PUT" THEN p.strikePrice ELSE spot)

\* The loop body without its `continue`: the row is appended all the same.
ResultsAfterNoContinue(res, row, gated) == Append(res, row)
\* The row put first instead of last.
ResultsAfterPrepend(res, row, gated) == IF gated THEN res ELSE <<row>> \o res

\* results after one product: `continue` when it went to unmatched.
ResultsAfter(res, row, gated) == IF gated THEN res ELSE Append(res, row)
UnmatchedAfter(unm, entry, gated) == IF gated THEN Append(unm, entry) ELSE unm

RECURSIVE SumOf(_, _)
SumOf(rows, f) ==
    IF rows = <<>> THEN Zero ELSE RAdd(rows[1][f], SumOf(Tail(rows), f))

RECURSIVE MaxOf(_, _)
MaxOf(rows, f) ==
    IF Len(rows) = 1 THEN rows[1][f]
    ELSE LET m == MaxOf(Tail(rows), f)
         IN  IF RLt(rows[1][f], m) THEN m ELSE rows[1][f]

RECURSIVE MinOf(_, _)
MinOf(rows, f) ==
    IF Len(rows) = 1 THEN rows[1][f]
    ELSE LET m == MinOf(Tail(rows), f)
         IN  IF RLt(m, rows[1][f]) THEN m ELSE rows[1][f]

\* round(sum(xs) / len(xs), k) if xs else 0, xs the rows' field f
AvgOf(rows, f, k) ==
    IF rows # <<>> THEN Round(RDiv(SumOf(rows, f), <<Len(rows), 1>>), k) ELSE Zero

\* stats with "unmatched" counting the rows.
StatsOfMiscounted(res, unm) ==
    [count |-> Len(res), unmatched |-> Len(res),
     avgSpread |-> AvgOf(res, "spreadPct", 2),
     maxSpread |-> IF res # <<>> THEN Round(MaxOf(res, "spreadPct"), 2) ELSE Zero,
     minSpread |-> IF res # <<>> THEN Round(MinOf(res, "spreadPct"), 2) ELSE Zero,
     avgDiffAPR |-> AvgOf(res, "diffAPR", 6)]

\* stats, from the rows as appended (their spreadPct and diffAPR).
StatsOf(res, unm) ==
    [count |-> Len(res), unmatched |-> Len(unm),
     avgSpread |-> AvgOf(res, "spreadPct", 2),
     maxSpread |-> IF res # <<>> THEN Round(MaxOf(res, "spreadPct"), 2) ELSE Zero,
     minSpread |-> IF res # <<>> THEN Round(MinOf(res, "spreadPct"), 2) ELSE Zero,
     avgDiffAPR |-> AvgOf(res, "diffAPR", 6)]


\* -------------------------------------------------------------- the state

VARIABLES
    pc,          \* where the handler is: idle, spot, products, tickers, loop, done
    req,         \* the request's coin parameter
    now,         \* the clock
    coin,        \* compare's argument; <<>> while compare was not called
    spot,        \* fetch_spot_price's result
    optType,     \* fetch_dual_products: index into OptionTypes
    page,        \* fetch_dual_products: pageIndex
    products,    \* fetch_dual_products: the list built so far, then compare's
    tickers,     \* fetch_option_tickers' result
    idx,         \* products the loop of compare has gone through
    results,
    unmatched,
    response,    \* what api_compare answered
    lastPage,    \* fetch_dual_products: items and total of the page just read
    requestLog   \* the upstream requests issued, and whether each came back

vars == <<pc, req, now, coin, spot, optType, page, products, tickers, idx,
          results, unmatched, response, lastPage, requestLog>>

NoCoin == <<>>
NoResponse == [ok |-> FALSE, status |-> 0]

NoPage == [items |-> <<>>, total |-> 0]

LogEntry(api, opt_type, pg, ok) ==
    [api |-> api, optionType |-> opt_type, pageIndex |-> pg, ok |-> ok]

Init ==
    /\ pc = "idle"
    /\ req \in Requests
    /\ now = Arrival
    /\ coin = NoCoin
    /\ spot = Zero
    /\ optType = 1
    /\ page = 1
    /\ products = <<>>
    /\ tickers = <<>>
    /\ idx = 0
    /\ results = <<>>
    /\ unmatched = <<>>
    /\ response = NoResponse
    /\ lastPage = NoPage
    /\ requestLog = <<>>

\* The parameter validated as sent, without upper().
CoinParamAsSent(r) == IF r = NoParam THEN ETH ELSE r

\* request.args.get("coin", "ETH").upper()
CoinParam(r) == Upper(IF r = NoParam THEN ETH ELSE r)

\* jsonify({"ok": False, "error": f"Unsupported coin: {coin}"}), 400
Rejected(c) == [ok |-> FALSE, status |-> 400, error |-> <<"Unsupported coin", c>>]
\* jsonify({"ok": False, "error": str(e), "trace": tb}), 500
Failed(what) == [ok |-> FALSE, status |-> 500, error |-> what, trace |-> what]
\* jsonify({"ok": True, "data": data})
Succeeded(data) == [ok |-> TRUE, status |-> 200, data |-> data]

\* The failed step taken again instead of answering.
AfterExceptionRetry(at) == at

\* Where the handler goes when a step of compare raises: the except clause
\* answers and the request is over.
AfterException(at) == "done"

\* api_compare, an unsupported coin: answered before compare is called.
ApiCompareReject ==
    /\ pc = "idle"
    /\ CoinParam(req) \notin SUPPORTED_COINS
    /\ response' = Rejected(CoinParam(req))
    /\ pc' = "done"
    /\ UNCHANGED <<req, now, coin, spot, optType, page, products, tickers, idx,
                   results, unmatched, lastPage, requestLog>>

\* api_compare, a supported coin: compare(coin) is called.
ApiCompareCall ==
    /\ pc = "idle"
    /\ CoinParam(req) \in SUPPORTED_COINS
    /\ coin' = CoinParam(req)
    /\ pc' = "spot"
    /\ UNCHANGED <<req, now, spot, optType, page, products, tickers, idx,
                   results, unmatched, response, lastPage, requestLog>>

\* A step that raised: the log entry of the failed request, and the answer.
Raise(entry, what) ==
    /\ requestLog' = requestLog \o entry
    /\ pc' = AfterException(pc)
    /\ response' = IF pc' = "done" THEN Failed(what) ELSE response

\* fetch_spot_price returns.
FetchSpotPrice ==
    /\ pc = "spot"
    /\ \E s \in Spots : spot' = s
    /\ requestLog' = Append(requestLog, LogEntry("price", "-", 0, TRUE))
    /\ pc' = "products"
    /\ UNCHANGED <<req, now, coin, optType, page, products, tickers, idx,
                   results, unmatched, response, lastPage>>

\* fetch_spot_price raises (network, timeout, raise_for_status, malformed).
FetchSpotPriceFails ==
    /\ pc = "spot"
    /\ Raise(<<LogEntry("price", "-", 0, FALSE)>>, "price")
    /\ UNCHANGED <<req, now, coin, spot, optType, page, products, tickers, idx,
                   results, unmatched, lastPage>>

\* The totals a page may report, around the boundary of the page's index.
TotalsAt(pg) == {0, pg * PageSize, pg * PageSize + 1}

\* One iteration of `while True` in fetch_dual_products: a page arrives.
FetchPage ==
    /\ pc = "products"
    /\ \E shape \in {"flat", "nested"}, raw \in SeqsUpTo(Items, MaxItems),
          tot \in TotalsAt(page) :
        LET data  == Page(shape, raw, tot)
            items == ItemsOf(data)
            total == TotalOf(data)
            last  == LastPage(items, page, total)
            opt   == OptionTypes[optType]
        IN  /\ Len(products) + Len(items) <= MaxProducts
            /\ page < MaxPage \/ last
            /\ products' = (IF items = <<>> THEN products
                            ELSE Extend(products, items, opt, coin))
            /\ lastPage' = [items |-> items, total |-> total]
            /\ requestLog' = Append(requestLog, LogEntry("list", opt, page, TRUE))
            /\ IF ~last
                   THEN /\ page' = NextPageIndex(page)
                        /\ UNCHANGED <<optType, pc>>
                   ELSE IF optType < Len(OptionTypes)
                       THEN /\ optType' = optType + 1
                            /\ page' = 1
                            /\ UNCHANGED pc
                       ELSE /\ pc' = "tickers"
                            /\ UNCHANGED <<optType, page>>
    /\ UNCHANGED <<req, now, coin, spot, tickers, idx, results, unmatched, response>>

\* A page request raises.
FetchPageFails ==
    /\ pc = "products"
    /\ Raise(<<LogEntry("list", OptionTypes[optType], page, FALSE)>>, "list")
    /\ UNCHANGED <<req, now, coin, spot, optType, page, products, tickers, idx,
                   results, unmatched, lastPage>>

\* fetch_option_tickers returns.
FetchOptionTickers ==
    /\ pc = "tickers"
    /\ \E feed \in SeqsUpTo(TickerRecords, MaxTickers) :
           tickers' = BuildTickers(feed, coin)
    /\ requestLog' = Append(requestLog, LogEntry("ticker", "-", 0, TRUE))
    /\ pc' = "loop"
    /\ lastPage' = NoPage
    /\ UNCHANGED <<req, now, coin, spot, optType, page, products, idx,
                   results, unmatched, response>>

\* fetch_option_tickers raises.
FetchOptionTickersFails ==
    /\ pc = "tickers"
    /\ Raise(<<LogEntry("ticker", "-", 0, FALSE)>>, "ticker")
    /\ lastPage' = NoPage
    /\ UNCHANGED <<req, now, coin, spot, optType, page, products, tickers, idx,
                   results, unmatched>>

\* One iteration of `for p in products`, at the instant t.
ProcessProduct ==
    /\ pc = "loop"
    /\ idx < Len(products)
    /\ \E t \in Nows :
        LET p      == products[idx + 1]
            ticker == Lookup(tickers, OptionSymbol(coin, p))
            bid    == BidOf(ticker)
            days   == _days_until(p.settleDate, t)
            gated  == NoLiquidity(bid)
        IN  /\ NotBefore(t, now)
            /\ now' = t
            /\ ~Raises(p, spot, bid)
            /\ unmatched' = UnmatchedAfter(unmatched,
                                UnmatchedEntry(coin, p, days, ticker), gated)
            /\ results' = ResultsAfter(results,
                                ComparisonRow(coin, p, spot, days, bid, BidQtyOf(ticker)),
                                gated)
    /\ idx' = idx + 1
    /\ UNCHANGED <<pc, req, coin, spot, optType, page, products, tickers,
                   response, lastPage, requestLog>>

\* An iteration raises (KeyError, ZeroDivisionError).
ProcessProductRaises ==
    /\ pc = "loop"
    /\ idx < Len(products)
    /\ LET p == products[idx + 1]
       IN  Raises(p, spot, BidOf(Lookup(tickers, OptionSymbol(coin, p))))
    /\ pc' = AfterException(pc)
    /\ response' = IF pc' = "done" THEN Failed("loop") ELSE response
    /\ UNCHANGED <<req, now, coin, spot, optType, page, products, tickers, idx,
                   results, unmatched, lastPage, requestLog>>

\* The data compare returns.
ComparisonResult ==
    [coin |-> coin, spotPrice |-> spot, results |-> results,
     unmatched |-> unmatched, stats |-> StatsOf(results, unmatched)]

\* After the loop: the statistics, the return, api_compare's answer.
Return ==
    /\ pc = "loop"
    /\ idx = Len(products)
    /\ response' = Succeeded(ComparisonResult)
    /\ pc' = "done"
    /\ UNCHANGED <<req, now, coin, spot, optType, page, products, tickers, idx,
                   results, unmatched, lastPage, requestLog>>

Next ==
    \/ ApiCompareReject
    \/ ApiCompareCall
    \/ FetchSpotPrice
    \/ FetchSpotPriceFails
    \/ FetchPage
    \/ FetchPageFails
    \/ FetchOptionTickers
    \/ FetchOptionTickersFails
    \/ ProcessProduct
    \/ ProcessProductRaises
    \/ Return

Spec == Init /\ [][Next]_vars
\* ------------------------------------------- the loop of compare, on its own

\* Inputs of one iteration: spot prices, items (a zero strike among them),
\* settlement dates from the past to a month ahead, bids around the fee.
LoopSpots == {<<1000, 1>>, <<3000, 1>>, <<50000, 1>>}
LoopItems ==
    { [keys |-> ItemKeys, strikePrice |-> k, settleDate |-> d, apr |-> a] :
        k \in {Zero, <<500, 1>>, <<2900, 1>>, Hundredths(345050)},
        d \in {[day |-> 19894, ms |-> 0], [day |-> 19895, ms |-> 72000000],
               Settle1, [day |-> 19925, ms |-> 28800000]},
        a \in {Rat(1, 10), Rat(1, 20)} }
LoopBids == {Rat(1, 100), <<1, 2>>, Rat(18, 25), <<15, 1>>}

\* compare after its three fetches, with one product and its ticker.
InitLoop ==
    /\ pc = "loop"
    /\ req = NoParam
    /\ now = Arrival
    /\ coin = ETH
    /\ spot \in LoopSpots
    /\ optType = Len(OptionTypes)
    /\ page = 1
    /\ \E item \in LoopItems, opt \in {"CALL", "PUT"}, bid \in LoopBids :
          LET p == Tagged(item, opt, ETH)
          IN  /\ products = <<p>>
              /\ tickers = BuildTickers(
                     <<Ticker(OptionSymbol(ETH, p), TickerKeys, bid, <<2, 1>>)>>, ETH)
    /\ idx = 0
    /\ results = <<>>
    /\ unmatched = <<>>
    /\ response = NoResponse
    /\ lastPage = NoPage
    /\ requestLog = << LogEntry("price", "-", 0, TRUE),
                       LogEntry("list", "CALL", 1, TRUE),
                       LogEntry("list", "PUT", 1, TRUE),
                       LogEntry("ticker", "-", 0, TRUE) >>

NextLoop == ProcessProduct \/ ProcessProductRaises \/ Return

LoopSpec == InitLoop /\ [][NextLoop]_vars

\* ----------------------------------------- fetch_dual_products, on its own

\* compare(ETH) at its call of fetch_dual_products.
InitListing ==
    /\ pc = "products"
    /\ req = NoParam
    /\ now = Arrival
    /\ coin = ETH
    /\ spot \in Spots
    /\ optType = 1
    /\ page = 1
    /\ products = <<>>
    /\ tickers = <<>>
    /\ idx = 0
    /\ results = <<>>
    /\ unmatched = <<>>
    /\ response = NoResponse
    /\ lastPage = NoPage
    /\ requestLog = <<LogEntry("price", "-", 0, TRUE)>>

NextListing == FetchPage \/ FetchPageFails

\* Every request returns or raises within its timeout, so the loop's next
\* request is always made.
ListingSpec == InitListing /\ [][NextListing]_vars /\ WF_vars(NextListing)

\* ---------------------------------------------------------------- claims

\* The ticker map holds a quote for symbol s whose bidPrice is above 0.
LiveBid(s) ==
    /\ s \in DOMAIN tickers
    /\ "bidPrice" \in tickers[s].keys
    /\ tickers[s].bidPrice[1] > 0

\* The products the loop has gone through.
Processed == SubSeq(products, 1, idx)

SymbolsSeen ==
    {OptionSymbol(coin, products[j]) : j \in 1..idx}
        \cup {results[k].optionSymbol : k \in 1..Len(results)}
        \cup {unmatched[k].optionSymbol : k \in 1..Len(unmatched)}

\* C1. Partition completeness: after each iteration the processed products
\* and the entries of results and unmatched match one to one (per option
\* symbol, as many entries as products, each in one list only), so the two
\* lengths add up to the number processed, and to len(products) in every
\* answer with ok: true.
C1_PartitionComplete ==
    /\ Len(results) + Len(unmatched) = idx
    /\ \A s \in SymbolsSeen :
          Cardinality({j \in 1..idx : OptionSymbol(coin, products[j]) = s})
            = Cardinality({k \in 1..Len(results) : results[k].optionSymbol = s})
              + Cardinality({k \in 1..Len(unmatched) : unmatched[k].optionSymbol = s})
    /\ response.ok =>
          Len(response.data.results) + Len(response.data.unmatched) = Len(products)

C1_Witness ==
    /\ pc = "done"
    /\ response.ok
    /\ Len(products) = MaxProducts
    /\ Len(results) >= 1
    /\ Len(unmatched) >= 1

\* C2. Liquidity gate: every row of results carries the option symbol of a
\* processed product, and the ticker map has a quote under that symbol with
\* a bidPrice above 0.
C2_LiquidityGate ==
    \A k \in 1..Len(results) :
        /\ LiveBid(results[k].optionSymbol)
        /\ \E j \in 1..idx :
              OptionSymbol(coin, products[j]) = results[k].optionSymbol

\* A row was built while another processed product's quote had a zero bid.
C2_Witness ==
    /\ Len(results) >= 1
    /\ \E j \in 1..idx :
          LET s == OptionSymbol(coin, products[j])
          IN  /\ s \in DOMAIN tickers
              /\ "bidPrice" \in tickers[s].keys
              /\ tickers[s].bidPrice = Zero

\* C3. Unmatched reasons: an entry's reason is "no contract" exactly when
\* the ticker map has no quote under its symbol, and "no bid" exactly when it
\* has one whose bidPrice is absent or not above 0.
C3_ReasonClassification ==
    \A k \in 1..Len(unmatched) :
        LET e == unmatched[k]
            s == e.optionSymbol
        IN  /\ e.reason \in {"no contract", "no bid"}
            /\ e.reason = "no contract" <=> s \notin DOMAIN tickers
            /\ e.reason = "no bid" <=> (s \in DOMAIN tickers /\ ~LiveBid(s))

\* Both reasons occur, "no bid" for a quote without a bidPrice.
C3_Witness ==
    /\ \E k \in 1..Len(unmatched) : unmatched[k].reason = "no contract"
    /\ \E k \in 1..Len(unmatched) :
          /\ unmatched[k].reason = "no bid"
          /\ "bidPrice" \notin tickers[unmatched[k].optionSymbol].keys

\* What identifies a product in a row or an unmatched entry.
KeyOfProduct(p) == <<p._optionType, p.strikePrice, OptionSymbol(coin, p)>>
KeyOfEntry(e) == <<e.type, e.strike, e.optionSymbol>>
LiveProduct(p) == LiveBid(OptionSymbol(coin, p))
DeadProduct(p) == ~LiveProduct(p)
KeysOfProducts(ps) == [i \in 1..Len(ps) |-> KeyOfProduct(ps[i])]
KeysOfEntries(es) == [i \in 1..Len(es) |-> KeyOfEntry(es[i])]

\* C4. Ordering: results and unmatched list the processed products in the
\* order of the product list (each is the sub-list of its products, not
\* re-sorted); the product list has every CALL product before any PUT
\* product, and each page's items were added at its end in listing order.
C4_ResultOrdering ==
    /\ KeysOfEntries(results) = KeysOfProducts(SelectSeq(Processed, LiveProduct))
    /\ KeysOfEntries(unmatched) = KeysOfProducts(SelectSeq(Processed, DeadProduct))
    /\ \A i, j \in 1..Len(products) :
          i < j => ~(products[i]._optionType = "PUT" /\ products[j]._optionType = "CALL")
    /\ (pc \in {"products", "tickers"} /\ requestLog # <<>>
            /\ requestLog[Len(requestLog)].api = "list"
            /\ requestLog[Len(requestLog)].ok) =>
          LET n == Len(lastPage.items)
              m == Len(products)
          IN  /\ n <= m
              /\ \A i \in 1..n :
                    /\ products[m - n + i]._optionType
                           = requestLog[Len(requestLog)].optionType
                    /\ products[m - n + i].strikePrice = lastPage.items[i].strikePrice
                    /\ products[m - n + i].settleDate = lastPage.items[i].settleDate
                    /\ products[m - n + i].apr = lastPage.items[i].apr

\* A CALL row before a PUT row, their products from two pages.
C4_Witness ==
    /\ pc = "done"
    /\ response.ok
    /\ Len(results) = 2
    /\ results[1].type = "CALL"
    /\ results[2].type = "PUT"
    /\ KeyOfEntry(results[1]) = KeyOfProduct(products[1])
    /\ KeyOfEntry(results[2]) = KeyOfProduct(products[2])

\* C5. Statistics emptiness: an answer with ok: true and no rows has count 0,
\* the four aggregates 0 and unmatched equal to len(products); and with no
\* rows the step after the loop (statistics and return) can always be taken.
C5_StatsEmptiness ==
    /\ (pc = "done" /\ response.ok /\ response.data.results = <<>>) =>
          LET st == response.data.stats
          IN  /\ st.count = 0
              /\ st.unmatched = Len(products)
              /\ st.avgSpread = Zero
              /\ st.maxSpread = Zero
              /\ st.minSpread = Zero
              /\ st.avgDiffAPR = Zero
    /\ (pc = "loop" /\ idx = Len(products) /\ results = <<>>) => ENABLED Return

\* Every product of a full list went to unmatched, and compare returned.
C5_Witness ==
    /\ pc = "done"
    /\ response.ok
    /\ response.data.results = <<>>
    /\ Len(products) = MaxProducts

Issued(api) == {k \in 1..Len(requestLog) : requestLog[k].api = api}

\* C6. All or nothing: a failed fetch is the last request issued and the
\* answer is {ok: false, error, trace} with status 500 and no data; no
\* request is issued twice; an answer with ok: true comes only after the
\* price, both directions of the listing and the tickers were fetched with
\* no failure and every product was processed, and carries what was fetched.
C6_AllOrNothing ==
    /\ \A k \in 1..Len(requestLog) :
          ~requestLog[k].ok =>
              /\ k = Len(requestLog)
              /\ pc = "done"
              /\ ~response.ok
              /\ response.status = 500
              /\ DOMAIN response = {"ok", "status", "error", "trace"}
    /\ \A i, j \in 1..Len(requestLog) : i < j => requestLog[i] # requestLog[j]
    /\ response.ok =>
          /\ pc = "done"
          /\ response.status = 200
          /\ \A k \in 1..Len(requestLog) : requestLog[k].ok
          /\ Cardinality(Issued("price")) = 1
          /\ Cardinality(Issued("ticker")) = 1
          /\ \E k \in Issued("list") : requestLog[k].optionType = "CALL"
          /\ \E k \in Issued("list") : requestLog[k].optionType = "PUT"
          /\ idx = Len(products)
          /\ response.data.spotPrice \in Spots \cup LoopSpots
          /\ response.data.results = results
          /\ response.data.unmatched = unmatched

\* The second page of the PUT direction failed after products had been
\* listed: nothing of them is returned.
C6_Witness ==
    /\ pc = "done"
    /\ response.status = 500
    /\ products # <<>>
    /\ requestLog # <<>>
    /\ requestLog[Len(requestLog)] = LogEntry("list", "PUT", 2, FALSE)

\* The coin parameter as sent, or its default.
Given(r) == IF r = NoParam THEN ETH ELSE r

\* C7. Coin validation: once the request is handled, if the upper-cased
\* parameter is not ETH or BTC the answer is {ok: false, error} with status
\* 400, compare was not called and no request was issued; otherwise compare
\* was called with the upper-cased coin.
C7_CoinValidation ==
    /\ pc = "idle" => (coin = NoCoin /\ requestLog = <<>>)
    /\ pc # "idle" =>
          IF Upper(Given(req)) \in {ETH, BTC}
              THEN coin = Upper(Given(req))
              ELSE /\ coin = NoCoin
                   /\ requestLog = <<>>
                   /\ pc = "done"
                   /\ ~response.ok
                   /\ response.status = 400
                   /\ DOMAIN response = {"ok", "status", "error"}

\* A lower-case coin was accepted and compare(BTC) ran to its answer.
C7_Witness ==
    /\ req = <<"b", "t", "c">>
    /\ coin = BTC
    /\ pc = "done"
    /\ response.ok

\* The unrounded values behind the rows of results, in order.
Unrounded ==
    LET live == SelectSeq(Processed, LiveProduct)
    IN  [k \in 1..Len(results) |->
            LET p == live[k]
                t == tickers[OptionSymbol(coin, p)]
            IN  Metrics(p._optionType, spot, p.strikePrice, results[k].days,
                        p.apr, t.bidPrice, BidQtyOf([found |-> TRUE, t |-> t]))]

\* C8. Rounding is presentation only: each row's metrics are the rounded
\* unrounded values, and the four aggregates of an answer are computed from
\* the rows' unrounded spread percentage and differential APR.
C8_StatsFromUnrounded ==
    (pc = "done" /\ response.ok /\ results # <<>>) =>
        LET u  == Unrounded
            st == response.data.stats
        IN  /\ \A k \in 1..Len(results) :
                  /\ results[k].spreadPct = Round(u[k].spread_pct, 2)
                  /\ results[k].diffAPR = Round(u[k].diff_apr, 6)
                  /\ results[k].optionAPRNet = Round(u[k].option_apr_net, 6)
            /\ st.avgSpread = AvgOf(u, "spread_pct", 2)
            /\ st.maxSpread = Round(MaxOf(u, "spread_pct"), 2)
            /\ st.minSpread = Round(MinOf(u, "spread_pct"), 2)
            /\ st.avgDiffAPR = AvgOf(u, "diff_apr", 6)

\* C9. Fee monotonicity: for every row, CALL or PUT, the net option APR is
\* at most the gross one and feeAPR = gross - net is not negative, unrounded
\* and as rounded in the row; and when the bid is below the fee, the net APR
\* is negative and the spread percentage is 0.
C9_FeeMonotone ==
    \A k \in 1..Len(results) :
        LET row == results[k]
            u   == Unrounded[k]
            bid == tickers[row.optionSymbol].bidPrice
            fee == RMul(row.spotPrice, Rat(24, 100000))
        IN  /\ RLe(u.option_apr_net, u.option_apr_gross)
            /\ u.fee_apr = RSub(u.option_apr_gross, u.option_apr_net)
            /\ ~RLt(u.fee_apr, Zero)
            /\ RLe(row.optionAPRNet, row.optionAPR)
            /\ ~RLt(row.feeAPR, Zero)
            /\ RLt(bid, fee) =>
                  /\ RLt(u.option_apr_net, Zero)
                  /\ u.spread_pct = Zero
                  /\ row.spreadPct = Zero

\* A PUT row whose bid is below the fee: its net APR is negative.
C9_Witness ==
    \E k \in 1..Len(results) :
        /\ results[k].type = "PUT"
        /\ RLt(results[k].optionAPRNet, Zero)
        /\ RPos(results[k].optionAPR)

\* The list requests of the log, in order.
ListRequests == SelectSeq(requestLog, LAMBDA e : e.api = "list")

\* Pages are asked 1, 2, 3, ... within a direction, CALL then PUT; after a
\* page that came back, the same direction goes on to the next page exactly
\* when the page had items and pageIndex * 100 is below its total.
PagingInv ==
    /\ \A k \in 1..Len(ListRequests) :
          LET e == ListRequests[k]
          IN  IF k = 1
                  THEN e.optionType = "CALL" /\ e.pageIndex = 1
                  ELSE LET d == ListRequests[k - 1]
                       IN  /\ d.ok
                           /\ \/ /\ e.optionType = d.optionType
                                 /\ e.pageIndex = d.pageIndex + 1
                              \/ /\ d.optionType = "CALL"
                                 /\ e.optionType = "PUT"
                                 /\ e.pageIndex = 1
    /\ (pc \in {"products", "tickers"} /\ requestLog # <<>>
            /\ requestLog[Len(requestLog)].api = "list"
            /\ requestLog[Len(requestLog)].ok) =>
          LET e      == requestLog[Len(requestLog)]
              goesOn == /\ pc = "products"
                        /\ OptionTypes[optType] = e.optionType
                        /\ page = e.pageIndex + 1
              stops  == \/ lastPage.items = <<>>
                        \/ e.pageIndex * 100 >= lastPage.total
          IN  /\ goesOn <=> ~stops
              /\ stops =>
                    IF e.optionType = "CALL"
                        THEN pc = "products" /\ OptionTypes[optType] = "PUT" /\ page = 1
                        ELSE pc = "tickers"

\* C10. Pagination: the page order and the stop rule above hold throughout,
\* and with an upstream that stops announcing pages the listing fetch ends.
C10_Pagination == []PagingInv /\ ((pc = "products") ~> (pc # "products"))

\* Both directions took two pages; the last one came back empty.
C10_Witness ==
    /\ pc = "tickers"
    /\ Len(ListRequests) = 4
    /\ lastPage.items = <<>>
    /\ lastPage.total > 2 * 100
    /\ Len(products) = MaxProducts

=============================================================================
